---- MODULE Spec2Model ----
(***************************************************************************)
(* The connection acceptor (Listener) and the per-connection session       *)
(* (NodeSession) of src/network/listener.rs, as a state machine.           *)
(*                                                                         *)
(* One arbiter thread runs the Listener and every NodeSession it creates.  *)
(* A session owns: hb (Instant of the last Ping request), id (Option of    *)
(* NodeId), raft (Option of the engine address), framed (the write half),  *)
(* the interval timer started in started(), and the tasks spawned by the   *)
(* Message arm of the stream handler.  Time is counted in whole seconds.   *)
(***************************************************************************)
EXTENDS Integers, Sequences, FiniteSets, TLC

\* ---------------------------------------------------------------- bounds
\* A run is bounded by a profile: how many connections are accepted, how many
\* request frames the peers send, and how many seconds pass.  Short runs with
\* more traffic, and long runs (long enough for a heartbeat to expire, and to
\* be refreshed once and expire) with less.
MaxSessions == 2
MaxFrames == 2
ShortTime == 1
LongSessions == 1
LongFrames == 2
MaxTime == 12
\* Connections are accepted in the first seconds of a run.
MaxConnectTime == 1
\* Runs in which accepts fail: how many of them fail, and how many frames the
\* accepted peers send.
MaxAcceptErrors == 1
AcceptFrames == 1
Profiles ==
    { [sessions |-> MaxSessions, frames |-> MaxFrames, time |-> ShortTime, errors |-> 0],
      [sessions |-> LongSessions, frames |-> LongFrames, time |-> MaxTime, errors |-> 0],
      [sessions |-> MaxSessions, frames |-> AcceptFrames, time |-> ShortTime,
       errors |-> MaxAcceptErrors] }
\* The runs of the specification with fairness.
LiveSessions == 1
LiveFrames == 2
LiveTime == 1
LiveErrors == 1
LiveProfiles ==
    { [sessions |-> LiveSessions, frames |-> LiveFrames, time |-> LiveTime,
       errors |-> LiveErrors] }

\* ------------------------------------------------------ program constants
HeartbeatInterval == 1
ClientTimeout == 10

\* ------------------------------------------------------------ value sets
Sessions == 1 .. MaxSessions

\* Option<NodeId>: None, or Some(id) with id a NodeId
None == 0
NodeIds == {1, 2}

\* correlation ids carried by NodeRequest::Message / NodeResponse::Result
Mids == {1, 2}

\* the three arms of the match on type_id, and a string matching none of them
SupportedKinds == {"AppendEntriesRequest", "VoteRequest", "InstallSnapshotRequest"}
TypeIds == SupportedKinds \cup {"ClientPayload"}

\* ------------------------------------------------------------------ serde
\* The typed response of the engine to a request of a kind.
ResponseType(kind) ==
    CASE kind = "AppendEntriesRequest" -> "AppendEntriesResponse"
      [] kind = "VoteRequest" -> "VoteResponse"
      [] kind = "InstallSnapshotRequest" -> "InstallSnapshotResponse"

\* Typed values: a request and a response of each kind.
Requests == [type : SupportedKinds, term : {"1"}]
Responses(kind) == [type : {ResponseType(kind)}, term : {"2"}]

\* serde_json::to_string of a struct: a JSON object, never the empty string.
to_string(v) == <<"{", v.type, v.term, "}">>

\* serde_json::from_slice::<T>(body): Ok exactly for the text of a value of T.
from_slice_ok(kind, body) == \E r \in Requests : r.type = kind /\ to_string(r) = body

\* Payloads a peer puts in a Message of a kind: the text of a request of that
\* kind, or bytes that are the text of no request.
EmptyPayload == <<>>
Bodies(kind) == {to_string(r) : r \in {q \in Requests : q.type = kind}} \cup {EmptyPayload}

\* Result<String, ()>
Ok(payload) == [ok |-> TRUE, payload |-> payload]
Err == [ok |-> FALSE, payload |-> EmptyPayload]

VARIABLES
    run,        \* the profile bounding this run
    acceptErrors, \* errors of listener.incoming() the Listener has skipped
    now,        \* Instant::now(), in seconds
    state,      \* per session: "none" (not accepted yet), "running", "stopped"
    cause,      \* per session: why it stopped
    hb,         \* NodeSession.hb
    id,         \* NodeSession.id
    raft,       \* NodeSession.raft is Some
    nextTick,   \* when the session's run_interval fires next
    tasks,      \* per session: the tasks spawned by the Message arm, in order
    pings,      \* per session: NodeResponse::Ping frames written to framed
    results,    \* per session: NodeResponse::Result frames written, in order
    ticks,      \* per session: interval ticks that have fired
    network,    \* PeerConnected messages delivered to the Network actor
    joins,      \* per session: NodeRequest::Join frames handled
    frames,     \* request frames decoded so far, all sessions
    panicked    \* "none", or the unwrap that panicked on the arbiter thread

vars == <<run, acceptErrors, now, state, cause, hb, id, raft, nextTick, tasks, pings, results,
          ticks, network, joins, frames, panicked>>

InitWith(profiles) ==
    /\ run \in profiles
    /\ acceptErrors = 0
    /\ now = 0
    /\ state = [s \in Sessions |-> "none"]
    /\ cause = [s \in Sessions |-> "none"]
    /\ hb = [s \in Sessions |-> 0]
    /\ id = [s \in Sessions |-> None]
    /\ raft = [s \in Sessions |-> FALSE]
    /\ nextTick = [s \in Sessions |-> 0]
    /\ tasks = [s \in Sessions |-> <<>>]
    /\ pings = [s \in Sessions |-> 0]
    /\ results = [s \in Sessions |-> <<>>]
    /\ ticks = [s \in Sessions |-> 0]
    /\ network = <<>>
    /\ joins = [s \in Sessions |-> 0]
    /\ frames = 0
    /\ panicked = "none"

Init == InitWith(Profiles)

Running(s) == state[s] = "running"

\* A task whose future was dropped with its context, or whose answer found
\* the receiving end of its oneshot dropped.
Dropped ==
    [mid |-> 1, type_id |-> "", body |-> EmptyPayload, pc |-> "dropped",
     res |-> Err, engine |-> FALSE]

\* The session's actor and context are dropped: its fields, its interval and
\* its spawned tasks go with it.  An engine future already spawned on the
\* arbiter lives on.
DropTasks(ts) ==
    [i \in DOMAIN ts |-> IF ts[i].pc = "calling" THEN ts[i] ELSE Dropped]

\* ctx.stop() on session s
Stop(s, why) ==
    /\ state' = [state EXCEPT ![s] = "stopped"]
    /\ cause' = [cause EXCEPT ![s] = why]
    /\ hb' = [hb EXCEPT ![s] = 0]
    /\ id' = [id EXCEPT ![s] = None]
    /\ raft' = [raft EXCEPT ![s] = FALSE]
    /\ nextTick' = [nextTick EXCEPT ![s] = 0]
    /\ tasks' = [tasks EXCEPT ![s] = DropTasks(@)]
    /\ panicked' = panicked

\* A panic unwinds the arbiter thread: every actor and every future on it is
\* dropped.
Panic(where) ==
    /\ panicked' = where
    /\ state' = [s \in Sessions |-> IF state[s] = "running" THEN "stopped" ELSE state[s]]
    /\ cause' = [s \in Sessions |-> IF state[s] = "running" THEN "panic" ELSE cause[s]]
    /\ hb' = [s \in Sessions |-> 0]
    /\ id' = [s \in Sessions |-> None]
    /\ raft' = [s \in Sessions |-> FALSE]
    /\ nextTick' = [s \in Sessions |-> 0]
    /\ tasks' = [s \in Sessions |-> [i \in DOMAIN tasks[s] |-> Dropped]]

\* Mutant: an error of the incoming stream is unwrapped.
AcceptErrorUnwrap ==
    /\ panicked = "none"
    /\ now <= MaxConnectTime
    /\ acceptErrors < run.errors
    /\ acceptErrors' = acceptErrors + 1
    /\ Panic("accept")
    /\ UNCHANGED <<run, now, pings, results, ticks, network, joins, frames>>

\* listener.incoming() yields an error: map_err(|_| ()) maps it to () and the
\* message stream registered with add_message_stream skips it.  No NodeConnect
\* is delivered for it and the stream is polled on.
AcceptError ==
    /\ panicked = "none"
    /\ now <= MaxConnectTime
    /\ acceptErrors < run.errors
    /\ acceptErrors' = acceptErrors + 1
    /\ UNCHANGED <<run, now, state, cause, hb, id, raft, nextTick, tasks, pings, results,
                   ticks, network, joins, frames, panicked>>

\* Handler<NodeConnect> for Listener: one new session per accepted connection
\* (NodeSession::new, then Actor::started, which starts the interval).
NodeConnect(s) ==
    /\ panicked = "none"
    /\ s <= run.sessions
    /\ now <= MaxConnectTime
    /\ state[s] = "none"
    /\ \A r \in Sessions : r < s => state[r] # "none"
    /\ state' = [state EXCEPT ![s] = "running"]
    /\ hb' = [hb EXCEPT ![s] = now]
    /\ id' = [id EXCEPT ![s] = None]
    /\ raft' = [raft EXCEPT ![s] = FALSE]
    /\ nextTick' = [nextTick EXCEPT ![s] = now + HeartbeatInterval]
    /\ UNCHANGED <<run, acceptErrors, now, cause, tasks, pings, results, ticks, network, joins, frames, panicked>>

\* Handler<RaftCreated> for NodeSession
RaftCreated(s) ==
    /\ Running(s)
    /\ raft' = [raft EXCEPT ![s] = TRUE]
    /\ UNCHANGED <<run, acceptErrors, now, state, cause, hb, id, nextTick, tasks, pings, results,
                   ticks, network, joins, frames, panicked>>

\* Mutant: the staleness check is not strict.
HeartbeatExpiredAtThreshold(s) == now - hb[s] >= ClientTimeout

\* Mutant: the staleness check allows one more interval.
HeartbeatExpiredLate(s) == now - hb[s] > ClientTimeout + HeartbeatInterval

\* Instant::now().duration_since(act.hb) > Duration::new(10, 0)
HeartbeatExpired(s) == now - hb[s] > ClientTimeout

\* Mutant: the closure returns after ctx.stop(), before the Ping is written.
HbTickReturnAfterStop(s) ==
    /\ Running(s)
    /\ nextTick[s] <= now
    /\ IF now - hb[s] > ClientTimeout
         THEN /\ Stop(s, "heartbeat")
              /\ UNCHANGED pings
         ELSE /\ nextTick' = [nextTick EXCEPT ![s] = @ + HeartbeatInterval]
              /\ pings' = [pings EXCEPT ![s] = @ + 1]
              /\ UNCHANGED <<state, cause, hb, id, raft, tasks, panicked>>
    /\ ticks' = [ticks EXCEPT ![s] = @ + 1]
    /\ UNCHANGED <<run, acceptErrors, now, results, network, joins, frames>>

\* Mutant: the task of a Message is awaited with ctx.wait, so the interval
\* does not fire while an engine call is in flight.
HbTickIdleOnly(s) ==
    /\ Running(s)
    /\ nextTick[s] <= now
    /\ \A i \in DOMAIN tasks[s] : tasks[s][i].pc # "calling"
    /\ IF now - hb[s] > ClientTimeout
         THEN Stop(s, "heartbeat")
         ELSE /\ nextTick' = [nextTick EXCEPT ![s] = @ + HeartbeatInterval]
              /\ UNCHANGED <<state, cause, hb, id, raft, tasks, panicked>>
    /\ pings' = [pings EXCEPT ![s] = @ + 1]
    /\ ticks' = [ticks EXCEPT ![s] = @ + 1]
    /\ UNCHANGED <<run, acceptErrors, now, results, network, joins, frames>>

\* The closure of NodeSession::hb, run on every interval tick: ctx.stop() when
\* the heartbeat is stale, and framed.write(NodeResponse::Ping) in any case.
HbTick(s) ==
    /\ Running(s)
    /\ nextTick[s] <= now
    /\ IF HeartbeatExpired(s)
         THEN Stop(s, "heartbeat")
         ELSE /\ nextTick' = [nextTick EXCEPT ![s] = @ + HeartbeatInterval]
              /\ UNCHANGED <<state, cause, hb, id, raft, tasks, panicked>>
    /\ pings' = [pings EXCEPT ![s] = @ + 1]
    /\ ticks' = [ticks EXCEPT ![s] = @ + 1]
    /\ UNCHANGED <<run, acceptErrors, now, results, network, joins, frames>>

\* One second passes.  A timer that is due fires before the clock moves on.
Tick ==
    /\ panicked = "none"
    /\ now < run.time
    /\ \A s \in Sessions : Running(s) => nextTick[s] > now
    /\ now' = now + 1
    /\ UNCHANGED <<run, acceptErrors, state, cause, hb, id, raft, nextTick, tasks, pings, results,
                   ticks, network, joins, frames, panicked>>

\* ------------------------------------------------- StreamHandler<NodeRequest>
\* A request frame can be decoded while the session runs (and the frames of
\* the run's profile are not used up).
CanRecv(s) == Running(s) /\ frames < run.frames

\* NodeRequest::Ping
HandlePing(s) ==
    /\ CanRecv(s)
    /\ hb' = [hb EXCEPT ![s] = now]
    /\ frames' = frames + 1
    /\ UNCHANGED <<run, acceptErrors, now, state, cause, id, raft, nextTick, tasks, pings, results,
                   ticks, network, joins, panicked>>

\* Mutant: a Join counts as a sign of life.
HandleJoinRefreshes(s, nid) ==
    /\ CanRecv(s)
    /\ hb' = [hb EXCEPT ![s] = now]
    /\ id' = [id EXCEPT ![s] = nid]
    /\ network' = Append(network, [id |-> nid, session |-> s])
    /\ joins' = [joins EXCEPT ![s] = @ + 1]
    /\ frames' = frames + 1
    /\ UNCHANGED <<run, acceptErrors, now, state, cause, raft, nextTick, tasks, pings,
                   results, ticks, panicked>>

\* Mutant: a later Join notifies the Network actor but keeps the first id.
HandleJoinKeepFirst(s, nid) ==
    /\ CanRecv(s)
    /\ id' = [id EXCEPT ![s] = IF @ = None THEN nid ELSE @]
    /\ network' = Append(network, [id |-> nid, session |-> s])
    /\ joins' = [joins EXCEPT ![s] = @ + 1]
    /\ frames' = frames + 1
    /\ UNCHANGED <<run, acceptErrors, now, state, cause, hb, raft, nextTick, tasks, pings, results,
                   ticks, panicked>>

\* Mutant: a Join on a session that has an identity is ignored.
HandleJoinOnce(s, nid) ==
    /\ CanRecv(s)
    /\ IF id[s] = None
         THEN /\ id' = [id EXCEPT ![s] = nid]
              /\ network' = Append(network, [id |-> nid, session |-> s])
         ELSE UNCHANGED <<id, network>>
    /\ joins' = [joins EXCEPT ![s] = @ + 1]
    /\ frames' = frames + 1
    /\ UNCHANGED <<run, acceptErrors, now, state, cause, hb, raft, nextTick, tasks, pings, results,
                   ticks, panicked>>

\* NodeRequest::Join(id)
HandleJoin(s, nid) ==
    /\ CanRecv(s)
    /\ id' = [id EXCEPT ![s] = nid]
    /\ network' = Append(network, [id |-> nid, session |-> s])
    /\ joins' = [joins EXCEPT ![s] = @ + 1]
    /\ frames' = frames + 1
    /\ UNCHANGED <<run, acceptErrors, now, state, cause, hb, raft, nextTick, tasks, pings, results,
                   ticks, panicked>>

\* A task spawned by the Message arm.  pc: "queued" (its SendToRaft is in the
\* session's mailbox), "calling" (the handler returned the engine future),
\* "replied" (the answer res is in the task's oneshot), "done" (the task's
\* closure has run).  engine records whether raft was Some at dispatch.
NewTask(mid, type_id, body) ==
    [mid |-> mid, type_id |-> type_id, body |-> body, pc |-> "queued",
     res |-> Err, engine |-> FALSE]

\* Mutant: a Message from a peer that has not announced itself is not
\* dispatched.
HandleMessageIdentified(s, mid, type_id, body) ==
    /\ CanRecv(s)
    /\ id[s] # None
    /\ tasks' = [tasks EXCEPT ![s] = Append(@, NewTask(mid, type_id, body))]
    /\ frames' = frames + 1
    /\ UNCHANGED <<run, acceptErrors, now, state, cause, hb, id, raft, nextTick, pings, results,
                   ticks, network, joins, panicked>>

\* NodeRequest::Message(mid, type_id, body)
HandleMessage(s, mid, type_id, body) ==
    /\ CanRecv(s)
    /\ tasks' = [tasks EXCEPT ![s] = Append(@, NewTask(mid, type_id, body))]
    /\ frames' = frames + 1
    /\ UNCHANGED <<run, acceptErrors, now, state, cause, hb, id, raft, nextTick, pings, results,
                   ticks, network, joins, panicked>>

\* ------------------------------------------------------- Handler<SendToRaft>
\* The mailbox is a queue: the oldest queued SendToRaft is handled first.
IsHead(s, i) ==
    /\ i \in DOMAIN tasks[s]
    /\ tasks[s][i].pc = "queued"
    /\ \A j \in DOMAIN tasks[s] : j < i => tasks[s][j].pc # "queued"

\* Mutant: self.raft is examined before the body is decoded.
SendToRaftArmRaftFirst(type_id, body, hasRaft) ==
    IF type_id \in SupportedKinds /\ hasRaft
      THEN IF ~from_slice_ok(type_id, body) THEN "panic" ELSE "fut"
      ELSE "reply"

\* Mutant: the body is decoded before the match on type_id.
SendToRaftArmDecodeFirst(type_id, body, hasRaft) ==
    IF ~from_slice_ok(type_id, body) THEN "panic"
    ELSE IF type_id \in SupportedKinds /\ hasRaft THEN "fut" ELSE "reply"

\* What the handler does with (type_id, body): "panic" (from_slice(..).unwrap()
\* on an Err), "fut" (Response::fut of the engine call) or "reply"
\* (Response::reply(Ok(""))).
SendToRaftArm(type_id, body, hasRaft) ==
    IF type_id \in SupportedKinds
      THEN IF ~from_slice_ok(type_id, body) THEN "panic"
           ELSE IF hasRaft THEN "fut" ELSE "reply"
      ELSE "reply"

SendToRaft(s, i) ==
    /\ Running(s)
    /\ IsHead(s, i)
    /\ LET t == tasks[s][i]
           arm == SendToRaftArm(t.type_id, t.body, raft[s])
       IN  CASE arm = "panic" -> Panic("from_slice")
             [] arm = "fut" ->
                  /\ tasks' = [tasks EXCEPT ![s][i].pc = "calling", ![s][i].engine = TRUE]
                  /\ UNCHANGED <<state, cause, hb, id, raft, nextTick, panicked>>
             [] arm = "reply" ->
                  /\ tasks' = [tasks EXCEPT ![s][i].pc = "replied",
                                            ![s][i].res = Ok(EmptyPayload)]
                  /\ UNCHANGED <<state, cause, hb, id, raft, nextTick, panicked>>
    /\ UNCHANGED <<run, acceptErrors, now, pings, results, ticks, network, joins, frames>>

\* The engine future, spawned on the arbiter: raft.send(raft_msg), map_err,
\* and_then(res.unwrap(), to_string), and the answer sent to the task's
\* oneshot, where it is lost if the session is gone.
Calling(s, i) ==
    /\ panicked = "none"
    /\ i \in DOMAIN tasks[s]
    /\ tasks[s][i].pc = "calling"

\* Mutant: the future answers with an empty payload instead of the
\* serialized response.
AnswerEmpty(s, i, res) ==
    tasks' = [tasks EXCEPT ![s][i] =
                IF Running(s)
                  THEN [@ EXCEPT !.pc = "replied",
                                 !.res = IF res.ok THEN Ok(EmptyPayload) ELSE res]
                  ELSE Dropped]

Answer(s, i, res) ==
    tasks' = [tasks EXCEPT ![s][i] =
                IF Running(s) THEN [@ EXCEPT !.pc = "replied", !.res = res] ELSE Dropped]

\* The engine answers Ok(response).
EngineOk(s, i) ==
    /\ Calling(s, i)
    /\ \E resp \in Responses(tasks[s][i].type_id) : Answer(s, i, Ok(to_string(resp)))
    /\ UNCHANGED <<run, acceptErrors, now, state, cause, hb, id, raft, nextTick, pings, results,
                   ticks, network, joins, frames, panicked>>

\* The engine answers Err(()): res.unwrap() panics inside the future.
EngineErr(s, i) ==
    /\ Calling(s, i)
    /\ Panic("engine_result")
    /\ UNCHANGED <<run, acceptErrors, now, pings, results, ticks, network, joins, frames>>

\* The send fails (MailboxError): map_err gives Err(()), which is the answer.
EngineMailboxError(s, i) ==
    /\ Calling(s, i)
    /\ Answer(s, i, Err)
    /\ UNCHANGED <<run, acceptErrors, now, state, cause, hb, id, raft, nextTick, pings, results,
                   ticks, network, joins, frames, panicked>>

\* Mutant: a session's tasks write their Results in the order of the requests.
TaskReadyInOrder(s, i) ==
    /\ Running(s)
    /\ i \in DOMAIN tasks[s]
    /\ tasks[s][i].pc = "replied"
    /\ \A j \in DOMAIN tasks[s] : j < i => tasks[s][j].pc = "done"

\* Mutant: answers are handed to the sessions one engine call at a time, in
\* the order of the sessions.
TaskReadySerial(s, i) ==
    /\ Running(s)
    /\ i \in DOMAIN tasks[s]
    /\ tasks[s][i].pc = "replied"
    /\ \A r \in Sessions : r < s => \A j \in DOMAIN tasks[r] : tasks[r][j].pc # "calling"

\* The task is polled in its session's context once its answer is there.
TaskReady(s, i) ==
    /\ Running(s)
    /\ i \in DOMAIN tasks[s]
    /\ tasks[s][i].pc = "replied"

\* Mutant: the Result carries the correlation id of the session's oldest
\* Message.
TaskDoneOldestMid(s, i) ==
    /\ TaskReady(s, i)
    /\ IF tasks[s][i].res.ok
         THEN /\ tasks' = [tasks EXCEPT ![s][i].pc = "done"]
              /\ results' = [results EXCEPT ![s] =
                    Append(@, [mid |-> tasks[s][1].mid, payload |-> tasks[s][i].res.payload])]
              /\ UNCHANGED <<state, cause, hb, id, raft, nextTick, panicked>>
         ELSE /\ Panic("send_result")
              /\ UNCHANGED results
    /\ UNCHANGED <<run, acceptErrors, now, pings, ticks, network, joins, frames>>

\* The and_then closure of the spawned task: res.unwrap(), then
\* framed.write(NodeResponse::Result(mid, payload)).
TaskDone(s, i) ==
    /\ TaskReady(s, i)
    /\ IF tasks[s][i].res.ok
         THEN /\ tasks' = [tasks EXCEPT ![s][i].pc = "done"]
              /\ results' = [results EXCEPT ![s] =
                    Append(@, [mid |-> tasks[s][i].mid, payload |-> tasks[s][i].res.payload])]
              /\ UNCHANGED <<state, cause, hb, id, raft, nextTick, panicked>>
         ELSE /\ Panic("send_result")
              /\ UNCHANGED results
    /\ UNCHANGED <<run, acceptErrors, now, pings, ticks, network, joins, frames>>

\* ----------------------------------------------------------- transport faults
\* StreamHandler::finished (default): the inbound stream ended.
StreamFinished(s) ==
    /\ Running(s)
    /\ Stop(s, "finished")
    /\ UNCHANGED <<run, acceptErrors, now, pings, results, ticks, network, joins, frames>>

\* Mutant: error returns Running::Continue, the read error is passed over.
StreamErrorContinue(s) ==
    /\ Running(s)
    /\ cause' = [cause EXCEPT ![s] = "read_error"]
    /\ UNCHANGED <<run, acceptErrors, now, state, hb, id, raft, nextTick, tasks, pings, results,
                   ticks, network, joins, frames, panicked>>

\* StreamHandler::error (default, Running::Stop): a read error.
StreamError(s) ==
    /\ Running(s)
    /\ Stop(s, "read_error")
    /\ UNCHANGED <<run, acceptErrors, now, pings, results, ticks, network, joins, frames>>

\* WriteHandler::error (default, Running::Stop): a write error.
WriteError(s) ==
    /\ Running(s)
    /\ Stop(s, "write_error")
    /\ UNCHANGED <<run, acceptErrors, now, pings, results, ticks, network, joins, frames>>

Next ==
    \/ AcceptError
    \/ \E s \in Sessions : NodeConnect(s)
    \/ \E s \in Sessions : RaftCreated(s)
    \/ \E s \in Sessions : HbTick(s)
    \/ Tick
    \/ \E s \in Sessions : HandlePing(s)
    \/ \E s \in Sessions, nid \in NodeIds : HandleJoin(s, nid)
    \/ \E s \in Sessions, mid \in Mids, type_id \in TypeIds :
          \E body \in Bodies(type_id) : HandleMessage(s, mid, type_id, body)
    \/ \E s \in Sessions : \E i \in DOMAIN tasks[s] : SendToRaft(s, i)
    \/ \E s \in Sessions : \E i \in DOMAIN tasks[s] : EngineOk(s, i)
    \/ \E s \in Sessions : \E i \in DOMAIN tasks[s] : EngineErr(s, i)
    \/ \E s \in Sessions : \E i \in DOMAIN tasks[s] : EngineMailboxError(s, i)
    \/ \E s \in Sessions : \E i \in DOMAIN tasks[s] : TaskDone(s, i)
    \/ \E s \in Sessions : StreamFinished(s)
    \/ \E s \in Sessions : StreamError(s)
    \/ \E s \in Sessions : WriteError(s)

Spec == Init /\ [][Next]_vars

\* The arbiter polls a session's context whenever its mailbox holds a message
\* or one of its spawned tasks is ready: a dispatch or a task completion that
\* stays possible happens.  Nothing is assumed of the peers, of the engine or
\* of the clock.
TaskSlots == 1 .. (MaxFrames + LongFrames + LiveFrames)
LiveInit == InitWith(LiveProfiles)
Fairness ==
    \A s \in Sessions : \A i \in TaskSlots :
        WF_vars(SendToRaft(s, i)) /\ WF_vars(TaskDone(s, i))
LiveSpec == LiveInit /\ [][Next]_vars /\ Fairness

\* ------------------------------------------------------------- vocabulary
Range(f) == {f[x] : x \in DOMAIN f}
Count(f, x) == Cardinality({k \in DOMAIN f : f[k] = x})

\* The Result frame task t writes.
ResultOf(t) == [mid |-> t.mid, payload |-> t.res.payload]

\* Tasks of session s that have written their Result, and among them those
\* that wrote the frame r.
DoneTasks(s) == {i \in DOMAIN tasks[s] : tasks[s][i].pc = "done"}
DoneWith(s, r) == {i \in DoneTasks(s) : ResultOf(tasks[s][i]) = r}

\* PeerConnected notifications the Network actor got from session s, and the
\* identity of the latest one.
Notified(s) == {k \in DOMAIN network : network[k].session = s}
LastNotified(s) ==
    IF Notified(s) = {} THEN None
    ELSE network[CHOOSE k \in Notified(s) : \A j \in Notified(s) : j <= k].id

TransportCauses == {"finished", "read_error", "write_error"}

\* ----------------------------------------------------------------- claims

\* C1: a Message of a supported kind dispatched with the engine present, once
\* the engine has answered it, leads to exactly one Result(cid, p) written by
\* the session unless the session is closed first; p is the serialization of
\* the engine's response, never empty, and a session never holds more Result
\* frames for a (cid, p) than Messages it has completed with them.
EngineAnswered(s, i) ==
    /\ i \in DOMAIN tasks[s]
    /\ tasks[s][i].pc = "replied"
    /\ tasks[s][i].engine
    /\ tasks[s][i].res.ok

ResultWritten(s, i) ==
    /\ i \in DOMAIN tasks[s]
    /\ tasks[s][i].pc = "done"
    /\ Count(results[s], ResultOf(tasks[s][i])) = Cardinality(DoneWith(s, ResultOf(tasks[s][i])))

EngineResults(s) ==
    \A i \in DOMAIN tasks[s] :
        (tasks[s][i].engine /\ tasks[s][i].pc \in {"replied", "done"} /\ tasks[s][i].res.ok)
            => /\ tasks[s][i].type_id \in SupportedKinds
               /\ tasks[s][i].res.payload # EmptyPayload
               /\ tasks[s][i].res.payload \in
                     {to_string(r) : r \in Responses(tasks[s][i].type_id)}
               /\ tasks[s][i].pc = "done" => ResultWritten(s, i)

C1_EngineResponseWritten ==
    /\ [](\A s \in Sessions : Running(s) =>
            EngineResults(s) /\ Len(results[s]) = Cardinality(DoneTasks(s)))
    /\ \A s \in Sessions : \A i \in TaskSlots :
          EngineAnswered(s, i) ~> (ResultWritten(s, i) \/ ~Running(s))

C1_Witness ==
    \E s \in Sessions : \E i \in DOMAIN tasks[s] :
        /\ Running(s)
        /\ tasks[s][i].engine
        /\ ResultWritten(s, i)
        /\ results[s] = <<[mid |-> tasks[s][i].mid,
                           payload |-> <<"{", ResponseType(tasks[s][i].type_id), "2", "}">>]>>

\* C2: a running session whose last Ping request is more than the liveness
\* threshold (10) old has not had a heartbeat tick since the threshold was
\* crossed, and is at most one heartbeat interval (1) past it: the first tick
\* after the crossing stops it.
C2_ExpiryWithinOneInterval ==
    \A s \in Sessions :
        (Running(s) /\ now - hb[s] > ClientTimeout)
            => /\ nextTick[s] <= now
               /\ now - hb[s] <= ClientTimeout + HeartbeatInterval

C2_Witness ==
    \E s \in Sessions :
        state[s] = "stopped" /\ cause[s] = "heartbeat" /\ frames = 0

\* C3: every heartbeat tick of a session writes exactly one Ping response,
\* the tick that stops the session for staleness included; a stopped session
\* ticks no more and writes no Ping.
C3_OnePingPerTick ==
    /\ [](\A s \in Sessions : pings[s] = ticks[s])
    /\ [][\A s \in Sessions :
            /\ ticks'[s] \in {ticks[s], ticks[s] + 1}
            /\ state[s] # "running" => (ticks'[s] = ticks[s] /\ pings'[s] = pings[s])]_vars

C3_Witness ==
    \E s \in Sessions :
        /\ cause[s] = "heartbeat"
        /\ ticks[s] = ClientTimeout + 1
        /\ pings[s] = ClientTimeout + 1

\* C4 (as claimed): every Message, of any kind and with any body, dispatched
\* while the engine handle is absent is answered with Ok("") and leaves the
\* session running.
C4_AbsentEngineAnyBody ==
    [][\A s \in Sessions : \A i \in DOMAIN tasks[s] :
          (SendToRaft(s, i) /\ ~raft[s])
              => /\ state'[s] = "running"
                 /\ tasks'[s][i].pc = "replied"
                 /\ tasks'[s][i].res = Ok(EmptyPayload)]_vars

\* C5: a Message whose kind is none of the three supported ones is answered
\* with an empty payload, the Result written for it is Result(cid, ""), the
\* engine is never called for it, its body is never decoded (no panic), and
\* its dispatch leaves the session running.
UnknownKind(t) == t.pc # "dropped" /\ t.type_id \notin SupportedKinds

C5_UnknownKindEmptyResult ==
    /\ [](\A s \in Sessions : \A i \in DOMAIN tasks[s] :
            UnknownKind(tasks[s][i])
                => /\ tasks[s][i].pc \in {"queued", "replied", "done"}
                   /\ ~tasks[s][i].engine
                   /\ tasks[s][i].pc # "queued" => tasks[s][i].res = Ok(EmptyPayload)
                   /\ tasks[s][i].pc = "done"
                        => /\ [mid |-> tasks[s][i].mid, payload |-> EmptyPayload]
                                \in Range(results[s])
                           /\ ResultWritten(s, i))
    /\ [][\A s \in Sessions : \A i \in DOMAIN tasks[s] :
            (SendToRaft(s, i) /\ UnknownKind(tasks[s][i]))
                => /\ state'[s] = "running"
                   /\ panicked' = "none"
                   /\ tasks'[s][i].pc = "replied"]_vars

C5_Witness ==
    \E s \in Sessions : \E i \in DOMAIN tasks[s] :
        /\ Running(s)
        /\ raft[s]
        /\ UnknownKind(tasks[s][i])
        /\ tasks[s][i].pc = "done"
        /\ results[s] = <<[mid |-> tasks[s][i].mid, payload |-> EmptyPayload]>>

C7_FailedCallEmptyResult ==
    [][\A s \in Sessions : \A i \in DOMAIN tasks[s] :
          (Running(s) /\ (EngineErr(s, i) \/ EngineMailboxError(s, i)))
              => /\ state'[s] = "running"
                 /\ tasks'[s][i].pc = "replied"
                 /\ tasks'[s][i].res = Ok(EmptyPayload)]_vars

\* C8 (as claimed): a session is stopped only by a transport fault or by a
\* heartbeat expiry, never by the dispatch of a Message, its own or another
\* session's.
C8_StoppedOnlyByTransportOrHeartbeat ==
    \A s \in Sessions :
        state[s] = "stopped" => cause[s] \in TransportCauses \cup {"heartbeat"}

\* C9: while session a has an engine call in flight, every other running
\* session b goes on: a due heartbeat tick of b can fire, a Ping request of b
\* can be handled, the engine can answer a call of b, and an answered task of
\* b can write its Result.
HasCall(s) == \E i \in DOMAIN tasks[s] : tasks[s][i].pc = "calling"

C9_SessionsIndependent ==
    \A a \in Sessions : \A b \in Sessions :
        (a # b /\ HasCall(a) /\ Running(b))
            => /\ nextTick[b] <= now => ENABLED HbTick(b)
               /\ frames < run.frames => ENABLED HandlePing(b)
               /\ \A i \in DOMAIN tasks[b] :
                    /\ tasks[b][i].pc = "calling" => ENABLED EngineOk(b, i)
                    /\ tasks[b][i].pc = "replied" => ENABLED TaskDone(b, i)

C9_Witness ==
    \E a \in Sessions : \E b \in Sessions :
        /\ a # b
        /\ Running(a)
        /\ Running(b)
        /\ HasCall(a)
        /\ ticks[b] >= 1
        /\ \E i \in DOMAIN tasks[b] : tasks[b][i].engine /\ ResultWritten(b, i)

\* C10: a transport fault (the inbound stream ends, a read error, a write
\* error) stops the session; a stopped session stays stopped for the same
\* cause, is never started again, and writes no further frame.
TransportFault(s) == StreamFinished(s) \/ StreamError(s) \/ WriteError(s)

C10_TransportFaultStops ==
    /\ [](\A s \in Sessions : cause[s] \in TransportCauses => state[s] = "stopped")
    /\ [][\A s \in Sessions :
            /\ TransportFault(s)
                 => /\ state'[s] = "stopped"
                    /\ cause'[s] \in TransportCauses
                    /\ pings'[s] = pings[s]
                    /\ results'[s] = results[s]
            /\ state[s] = "stopped"
                 => /\ state'[s] = "stopped"
                    /\ cause'[s] = cause[s]
                    /\ pings'[s] = pings[s]
                    /\ results'[s] = results[s]]_vars

C10_Witness ==
    \E s \in Sessions :
        /\ cause[s] \in TransportCauses
        /\ pings[s] >= 1
        /\ Len(results[s]) >= 1
        /\ HasCall(s)

\* C11: a Message frame is handled the same whether or not the peer has
\* announced itself: whatever id holds, a running session accepts a Message of
\* any kind and body, dispatches its oldest queued request, and writes the
\* Result carrying the cid of an answered one; and no step of that handling
\* (receipt, dispatch, engine answer, write of the Result) that leaves the
\* session running changes its identity or notifies the Network actor.
\* A step of the handling of a Message on session s changes the session's
\* tasks: a task is spawned, dispatched, answered, or writes its Result.
MessageStep(s) == tasks'[s] # tasks[s]

C11_MessageSameInBothStates ==
    /\ [](\A s \in Sessions :
            /\ CanRecv(s)
                 => \A type_id \in TypeIds :
                       ENABLED (\E mid \in Mids : \E body \in Bodies(type_id) :
                                   HandleMessage(s, mid, type_id, body))
            /\ Running(s)
                 => \A i \in DOMAIN tasks[s] :
                       /\ IsHead(s, i) => ENABLED SendToRaft(s, i)
                       /\ tasks[s][i].pc = "replied" => ENABLED TaskDone(s, i)
                       /\ tasks[s][i].pc = "done"
                            => \E k \in DOMAIN results[s] :
                                  results[s][k].mid = tasks[s][i].mid)
    /\ [][\A s \in Sessions :
            (MessageStep(s) /\ state'[s] = "running")
                => /\ id'[s] = id[s]
                   /\ joins'[s] = joins[s]
                   /\ network' = network]_vars

C11_Witness ==
    \E s \in Sessions : \E i \in DOMAIN tasks[s] :
        /\ Running(s)
        /\ id[s] = None
        /\ joins[s] = 0
        /\ tasks[s][i].pc = "done"
        /\ tasks[s][i].engine
        /\ results[s] = <<ResultOf(tasks[s][i])>>

EngineCompletes(s, i) == EngineOk(s, i) \/ EngineErr(s, i) \/ EngineMailboxError(s, i)

C13_LateAnswerDiscarded ==
    [][\A s \in Sessions : \A i \in DOMAIN tasks[s] :
          (/\ state[s] = "stopped"
           /\ cause[s] \in TransportCauses \cup {"heartbeat"}
           /\ EngineCompletes(s, i))
              => /\ results' = results
                 /\ pings' = pings
                 /\ state' = state
                 /\ panicked' = "none"]_vars

\* C14: every accepted connection creates exactly one session, which starts
\* running with no identity, no engine handle, no task and its heartbeat at
\* the time of creation, and leaves every other session as it was; while the
\* Listener lives and connections are left, the next one can be accepted
\* whatever the other sessions are doing; an accept that fails creates no
\* session, changes none, and leaves the Listener accepting.
Accepted(s) == state[s] = "none" /\ state'[s] = "running"
NextSlot(s) ==
    /\ s <= run.sessions
    /\ state[s] = "none"
    /\ \A r \in Sessions : r < s => state[r] # "none"

Malformed(t) == t.type_id \in SupportedKinds /\ ~from_slice_ok(t.type_id, t.body)

C15_MalformedPayloadAborts ==
    /\ [](/\ \A s \in Sessions : \A i \in DOMAIN tasks[s] :
                Malformed(tasks[s][i]) => tasks[s][i].pc = "queued"
          /\ panicked = "from_slice" => \A s \in Sessions : ~Running(s))
    /\ [][\A s \in Sessions : \A i \in DOMAIN tasks[s] :
            (SendToRaft(s, i) /\ Malformed(tasks[s][i]))
                => /\ panicked' = "from_slice"
                   /\ results' = results
                   /\ \A r \in Sessions : state'[r] # "running"]_vars

C15_Witness ==
    \E s \in Sessions :
        /\ panicked = "from_slice"
        /\ cause[s] = "panic"
        /\ Len(tasks[s]) = 2
        /\ Len(results[s]) = 1
        /\ results[s][1].payload # EmptyPayload

\* C16: Results written are matched by Messages received.  On a running
\* session, for every cid the Result frames carrying it are as many as the
\* Messages with it whose task has written its Result, hence no more than the
\* Messages received with it; and a Result frame is only ever written by a
\* running session, one at a time, for an answered Message of that session
\* and with its cid.
WithMid(f, mid) == {k \in DOMAIN f : f[k].mid = mid}

C16_ResultsMatchMessages ==
    /\ [](\A s \in Sessions : \A mid \in Mids :
            Running(s)
                => /\ Cardinality(WithMid(results[s], mid))
                        = Cardinality(WithMid(tasks[s], mid) \cap DoneTasks(s))
                   /\ Cardinality(WithMid(results[s], mid))
                        <= Cardinality(WithMid(tasks[s], mid)))
    /\ [][\A s \in Sessions :
            results'[s] # results[s]
                => /\ Running(s)
                   /\ \E i \in DOMAIN tasks[s] :
                         /\ tasks[s][i].pc = "replied"
                         /\ results'[s] = Append(results[s], ResultOf(tasks[s][i]))]_vars

C16_Witness ==
    \E s \in Sessions :
        /\ Running(s)
        /\ Len(tasks[s]) = 2
        /\ tasks[s][1].mid = tasks[s][2].mid
        /\ tasks[s][1].pc = "done"
        /\ tasks[s][2].pc = "queued"
        /\ Len(results[s]) = 1
        /\ results[s][1].mid = tasks[s][1].mid

\* C17: nothing ties the order of a session's Results to the order of its
\* requests.  When a later Message of a running session has its answer while
\* an earlier one is still with the engine or answered but unwritten, the
\* later one's Result can be written first; and the engine can answer a later
\* call while an earlier one is in flight.  (The witness is the state in which
\* Result(cid2) was written before Result(cid1), both by way of the engine.)
C17_WritesNotOrdered ==
    \A s \in Sessions : \A i \in DOMAIN tasks[s] : \A j \in DOMAIN tasks[s] :
        (Running(s) /\ i < j /\ tasks[s][i].pc \in {"calling", "replied"})
            => /\ tasks[s][j].pc = "replied" => ENABLED TaskDone(s, j)
               /\ (tasks[s][j].pc = "calling" /\ panicked = "none") => ENABLED EngineOk(s, j)

C17_Witness ==
    \E s \in Sessions :
        /\ Running(s)
        /\ raft[s]
        /\ Len(tasks[s]) = 2
        /\ tasks[s][1].engine /\ tasks[s][2].engine
        /\ tasks[s][1].mid # tasks[s][2].mid
        /\ results[s] = <<ResultOf(tasks[s][2]), ResultOf(tasks[s][1])>>

\* C18: an engine call in flight does not suspend its own session.  While a
\* running session has a call in flight, a due heartbeat tick can fire, and a
\* Ping, a Join or a further Message can be handled; the call has no timeout
\* of its own, and the staleness rule applies unchanged: the session runs
\* while its last Ping is at most 10 old, and once it is older the tick that
\* stops it is due and fires within one interval.
C18_CallDoesNotSuspendSession ==
    \A s \in Sessions :
        (Running(s) /\ HasCall(s))
            => /\ nextTick[s] <= now => ENABLED HbTick(s)
               /\ nextTick[s] <= now + HeartbeatInterval
               /\ frames < run.frames
                    => /\ ENABLED HandlePing(s)
                       /\ ENABLED (\E nid \in NodeIds : HandleJoin(s, nid))
                       /\ ENABLED (\E mid \in Mids : HandleMessage(s, mid, "VoteRequest", EmptyPayload))
               /\ now - hb[s] > ClientTimeout
                    => /\ nextTick[s] <= now
                       /\ now - hb[s] <= ClientTimeout + HeartbeatInterval

C18_Witness ==
    \E s \in Sessions :
        /\ state[s] = "stopped"
        /\ cause[s] = "heartbeat"
        /\ HasCall(s)
        /\ ticks[s] = ClientTimeout + HeartbeatInterval + 1

\* C19: only a Ping request refreshes the heartbeat.  Every step that changes
\* hb of a session that runs before and after it is the handling of a Ping on
\* that session (and sets hb to the time of the Ping): a Join, a Message, a
\* RaftCreated, an engine answer, a Result write and a heartbeat tick leave it
\* as it was.  So a session that got frames but no Ping is stopped like a
\* silent one: once hb is more than 10 old its stopping tick is due.
C19_OnlyPingRefreshes ==
    /\ [](\A s \in Sessions :
            (Running(s) /\ now - hb[s] > ClientTimeout) => nextTick[s] <= now)
    /\ [][\A s \in Sessions :
            (Running(s) /\ state'[s] = "running" /\ hb'[s] # hb[s])
                => HandlePing(s) /\ hb'[s] = now]_vars

C19_Witness ==
    \E s \in Sessions :
        /\ state[s] = "stopped"
        /\ cause[s] = "heartbeat"
        /\ joins[s] = 1
        /\ Len(tasks[s]) = 1
        /\ ticks[s] = ClientTimeout + HeartbeatInterval

\* C20: the heartbeat check is strict.  A session is stopped for staleness
\* only by a tick at which its last Ping (or its creation) is more than 10
\* old, never at 10 or less; so a session stopped for staleness has had its
\* ticks at elapsed 1..10 without being stopped (it has ticked more than 10
\* times), and a due tick at elapsed 10 or less leaves the session running.
StoppedForStaleness(s) == cause[s] # "heartbeat" /\ cause'[s] = "heartbeat"

C20_StrictThreshold ==
    /\ [](\A s \in Sessions : cause[s] = "heartbeat" => ticks[s] > ClientTimeout)
    /\ [][\A s \in Sessions :
            /\ StoppedForStaleness(s) => (Running(s) /\ now - hb[s] > ClientTimeout)
            /\ (Running(s) /\ ticks'[s] # ticks[s] /\ now - hb[s] <= ClientTimeout)
                 => state'[s] = "running"]_vars

C20_Witness ==
    \E s \in Sessions :
        /\ Running(s)
        /\ frames = 0
        /\ now - hb[s] = ClientTimeout
        /\ ticks[s] = ClientTimeout
        /\ nextTick[s] = now + HeartbeatInterval

====
